---- MODULE Spec2Model ----
(***************************************************************************)
(* A model of the utf-utils transcoding library                            *)
(* (src/include/utf-utils/utf_utils.hpp): the six conversion entry points  *)
(* utf8_to_utf16, utf8_to_utf32, utf16_to_utf8, utf16_to_utf32,            *)
(* utf32_to_utf8 and utf32_to_utf16, the status enumeration, the           *)
(* byte-order-mark helpers, and a caller that owns the input and output    *)
(* buffers and calls the entry points on them.                             *)
(*                                                                         *)
(* 8-bit and 16-bit code units are natural numbers.  A char32_t is the     *)
(* pair <<high word, low word>> of its two 16-bit halves, because the      *)
(* model checker's integers end at 2^31 - 1 and a char32_t does not.       *)
(* Every C++ integer conversion is modelled by what it does to the value   *)
(* (ToU8, ToU16, ToI8, ToI16, Widen), shifts are multiplications and floor *)
(* divisions by powers of two.  The code indexes buffers from 0, TLA+      *)
(* sequences from 1: the element the code calls sv[i] is sv[i + 1] here.   *)
(***************************************************************************)
EXTENDS Integers, Sequences, FiniteSets, TLC

(***************************************************************************)
(* Integer arithmetic of the C++ code.                                     *)
(***************************************************************************)
RECURSIVE Pow2(_)
Pow2(k) == IF k = 0 THEN 1 ELSE 2 * Pow2(k - 1)

\* x << k on an int wide enough to hold the result
Shl(x, k) == x * Pow2(k)

\* x >> k on a non-negative value
Shr(x, k) == x \div Pow2(k)

\* x & (2^k - 1) on a non-negative value
LowBits(x, k) == x % Pow2(k)

\* conversion to an unsigned type of 8 or 16 bits: the value modulo 2^w
ToU8(x) == x % 256

ToU16(x) == x % 65536

\* conversion to char32_t / uint32_t of a value in 0 .. 2^31 - 1, which it
\* leaves as it is
Widen(x) == << Shr(x, 16), LowBits(x, 16) >>

\* the two halves of a char32_t, and its value where that is below 2^31
HighWord(ch) == ch[1]

LowWord(ch) == ch[2]

Value(ch) == Shl(HighWord(ch), 16) + LowWord(ch)

\* ch > bound and ch >= bound, for a char32_t ch and a constant below 2^31
Above(ch, bound) ==
    \/ HighWord(ch) > Shr(bound, 16)
    \/ HighWord(ch) = Shr(bound, 16) /\ LowWord(ch) > LowBits(bound, 16)

\* AtLeast with the bound itself left out
AtLeast_exclusive(ch, bound) == Above(ch, bound)

AtLeast(ch, bound) == Above(ch, bound) \/ ch = Widen(bound)

\* conversion to int8_t / int16_t: the value modulo 2^w, read as two's complement
ToI8(x) == IF x % 256 >= 128 THEN (x % 256) - 256 ELSE x % 256

ToI16(x) == IF x % 65536 >= 32768 THEN (x % 65536) - 65536 ELSE x % 65536

(***************************************************************************)
(* status_e                                                                *)
(***************************************************************************)
trailing_without_leading == -3

character_cut_off == -2

non_standard_encoding == -1

undefined_error == 0

success == 1

status_e ==
    {trailing_without_leading, character_cut_off, non_standard_encoding,
     undefined_error, success}

(***************************************************************************)
(* namespace utf::constants                                                *)
(***************************************************************************)
high_surrogate_start == 55296

high_surrogate_marker == 54

low_surrogate_start == 56320

low_surrogate_marker == 55

low_surrogate_end == 57343

supplementary_plane_offset == 65536

supplementary_plane_end == 1114112

one_byte_boundary == 127

two_byte_boundary == 2047

three_byte_boundary == 65535

four_byte_boundary == 1114111

trailing_byte_marker == 2

double_byte_marker == 6

triple_byte_marker == 14

quadruple_byte_marker == 30

byte_order_mark == 65279

reversed_byte_order_mark == 65534

(***************************************************************************)
(* Utility functions                                                       *)
(***************************************************************************)
\* is_high_surrogate comparing one bit less, which takes in low surrogates
is_high_surrogate_either_half(ch) ==
    Shr(high_surrogate_marker, 1) = Shr(ch, 11)

is_high_surrogate(ch) == high_surrogate_marker = Shr(ch, 10)

\* is_low_surrogate with the marker of the other surrogate half
is_low_surrogate_high_marker(ch) == high_surrogate_marker = Shr(ch, 10)

is_low_surrogate(ch) == low_surrogate_marker = Shr(ch, 10)

\* called on code points below 0x110000 only, given as plain numbers
is_correct_code_point(ch) ==
    ch < high_surrogate_start /\ ch > low_surrogate_end

\* called only on buffers of at least 3 code units
utf8_has_bom(code_units) ==
    code_units[1] = 239 /\ code_units[2] = 187 /\ code_units[3] = 191

\* endianness_e is modelled by its enumerator names
utf16_bom(ch) ==
    IF ch = byte_order_mark THEN "big_endian"
    ELSE IF ch = reversed_byte_order_mark THEN "little_endian"
    ELSE "unspecified"

\* the two bytes are held in int8_t, so a byte >= 0x80 is negative when the
\* bytes are put together again; the sum is converted to char16_t
utf16_reverse_endianness(ch) ==
    LET first_byte  == ToI8(Shr(ch, 8))
        second_byte == ToI8(LowBits(ch, 8))
    IN  ToU16(Shl(second_byte, 8) + first_byte)

\* the two words are held in int16_t and compared with the uint16_t constants
\* after promotion to int
utf32_bom(ch) ==
    LET first_word  == ToI16(HighWord(ch))
        second_word == ToI16(LowWord(ch))
    IN  IF first_word = 0 /\ second_word = byte_order_mark THEN "big_endian"
        ELSE IF first_word = reversed_byte_order_mark /\ second_word = 0
             THEN "little_endian"
        ELSE "unspecified"

\* The four bytes are held in int8_t.  The int sum
\*   (fourth_byte << 24) + (third_byte << 16) + (second_byte << 8) + first_byte
\* is formed here in its two halves, upper * 2^16 + lower, and converted to
\* char32_t modulo 2^32.
utf32_reverse_endianness(ch) ==
    LET first_byte  == ToI8(Shr(HighWord(ch), 8))
        second_byte == ToI8(LowBits(HighWord(ch), 8))
        third_byte  == ToI8(Shr(LowWord(ch), 8))
        fourth_byte == ToI8(LowBits(LowWord(ch), 8))
        upper       == Shl(fourth_byte, 8) + third_byte
        lower       == Shl(second_byte, 8) + first_byte
    IN  << ToU16(upper + (lower \div 65536)), ToU16(lower) >>

\* what a conversion hands back: the returned status and the output buffer
Result(st, buf) ==
    [status |-> st, out |-> buf, finished |-> FALSE, legs |-> <<>>]

\* the return after the loop: every unit of the input has been consumed
Finished(buf) ==
    [status |-> success, out |-> buf, finished |-> TRUE, legs |-> <<>>]

\* what a chained conversion returns: legs are the conversions it ran, in
\* the order it ran them, each with the status it returned
Leg(name, r) == [leg |-> name, status |-> r.status, finished |-> r.finished]

Chained(st, buf, legs) ==
    [status |-> st, out |-> buf, legs |-> legs,
     finished |-> Len(legs) = 2 /\ \A i \in 1..2 : legs[i].finished]

(***************************************************************************)
(* utf8_to_utf32.  The three multi-byte branches of the loop body are      *)
(* operators of their own: each takes the buffer and the index of the      *)
(* leading byte and yields the code point, or the status of the early      *)
(* return.  The code point is what push_back stores: the char16_t or       *)
(* char32_t converted to char32_t.                                         *)
(***************************************************************************)
Decoded(st, cp) == [status |-> st, code_point |-> cp]

\* lines 451-468: the leading byte is shifted as it is, markers included
double_byte_character(utf8_sv, index) ==
    LET this_code_unit == utf8_sv[index + 1]
        first_bits     == ToU16(Shl(this_code_unit, 6))
    IN
    IF index + 1 >= Len(utf8_sv) THEN Decoded(character_cut_off, <<0, 0>>)
    ELSE
    LET last_bits  == ToU16(LowBits(utf8_sv[index + 2], 6))
        code_point == ToU16(first_bits + last_bits)
    IN  Decoded(success, Widen(code_point))

\* triple_byte_character with the status of the trailing-byte branch returned
\* where the third byte is missing
triple_byte_character_wrong_status(utf8_sv, index) ==
    LET this_code_unit == utf8_sv[index + 1]
        first_bits     == ToU16(Shl(ToU16(this_code_unit), 12))
    IN
    IF index + 1 >= Len(utf8_sv) THEN Decoded(character_cut_off, <<0, 0>>)
    ELSE
    LET middle_bits == ToU16(Shl(ToU16(LowBits(utf8_sv[index + 2], 6)), 6)) IN
    IF index + 2 >= Len(utf8_sv) THEN Decoded(trailing_without_leading, <<0, 0>>)
    ELSE
    LET last_bits  == ToU16(LowBits(utf8_sv[index + 3], 6))
        code_point == ToU16(first_bits + middle_bits + last_bits)
    IN  Decoded(success, Widen(code_point))

\* lines 470-493: the shift by 12 happens in int and uint16_t keeps the low
\* 16 bits, which drops the marker
triple_byte_character(utf8_sv, index) ==
    LET this_code_unit == utf8_sv[index + 1]
        first_bits     == ToU16(Shl(ToU16(this_code_unit), 12))
    IN
    IF index + 1 >= Len(utf8_sv) THEN Decoded(character_cut_off, <<0, 0>>)
    ELSE
    LET middle_bits == ToU16(Shl(ToU16(LowBits(utf8_sv[index + 2], 6)), 6)) IN
    IF index + 2 >= Len(utf8_sv) THEN Decoded(character_cut_off, <<0, 0>>)
    ELSE
    LET last_bits  == ToU16(LowBits(utf8_sv[index + 3], 6))
        code_point == ToU16(first_bits + middle_bits + last_bits)
    IN  Decoded(success, Widen(code_point))

\* lines 495-526: the leading byte is shifted as it is, markers included; the
\* sum is below 2^27, so uint32_t holds it unchanged
quadruple_byte_character(utf8_sv, index) ==
    LET this_code_unit == utf8_sv[index + 1]
        first_bits     == Shl(this_code_unit, 18)
    IN
    IF index + 1 >= Len(utf8_sv) THEN Decoded(character_cut_off, <<0, 0>>)
    ELSE
    LET second_bits == Shl(LowBits(utf8_sv[index + 2], 6), 12) IN
    IF index + 2 >= Len(utf8_sv) THEN Decoded(character_cut_off, <<0, 0>>)
    ELSE
    LET third_bits == Shl(LowBits(utf8_sv[index + 3], 6), 6) IN
    IF index + 3 >= Len(utf8_sv) THEN Decoded(character_cut_off, <<0, 0>>)
    ELSE
    LET last_bits  == LowBits(utf8_sv[index + 4], 6)
        code_point == first_bits + second_bits + third_bits + last_bits
    IN  Decoded(success, Widen(code_point))

\* The for loop, from code unit `index` on, with utf32_s the output buffer as
\* filled so far.  A byte of the form 11111xxx matches none of the five tests
\* and the loop moves on to the next byte.
RECURSIVE utf8_to_utf32_loop(_, _, _)
utf8_to_utf32_loop(utf8_sv, index, utf32_s) ==
    IF index >= Len(utf8_sv) THEN Finished(utf32_s)
    ELSE
    LET this_code_unit == utf8_sv[index + 1] IN
    IF Shr(this_code_unit, 7) = 0
    THEN utf8_to_utf32_loop(utf8_sv, index + 1,
                            Append(utf32_s, Widen(this_code_unit)))
    ELSE IF Shr(this_code_unit, 6) = trailing_byte_marker
    THEN Result(trailing_without_leading, <<>>)
    ELSE IF Shr(this_code_unit, 5) = double_byte_marker
    THEN
        LET d == double_byte_character(utf8_sv, index) IN
        IF d.status < success THEN Result(d.status, <<>>)
        ELSE utf8_to_utf32_loop(utf8_sv, index + 2, Append(utf32_s, d.code_point))
    ELSE IF Shr(this_code_unit, 4) = triple_byte_marker
    THEN
        LET d == triple_byte_character(utf8_sv, index) IN
        IF d.status < success THEN Result(d.status, <<>>)
        ELSE utf8_to_utf32_loop(utf8_sv, index + 3, Append(utf32_s, d.code_point))
    ELSE IF Shr(this_code_unit, 3) = quadruple_byte_marker
    THEN
        LET d == quadruple_byte_character(utf8_sv, index) IN
        IF d.status < success THEN Result(d.status, <<>>)
        ELSE utf8_to_utf32_loop(utf8_sv, index + 4, Append(utf32_s, d.code_point))
    ELSE utf8_to_utf32_loop(utf8_sv, index + 1, utf32_s)

\* utf32_s is the caller's buffer as passed in: the function never empties it
\* before writing, and comply_with_standard is not read
utf8_to_utf32(utf8_sv, utf32_s, comply_with_standard) ==
    LET code_unit_count == Len(utf8_sv)
        has_bom == code_unit_count >= 3 /\ utf8_has_bom(utf8_sv)
    IN  utf8_to_utf32_loop(utf8_sv,
                           IF has_bom THEN 3 ELSE 0,
                           IF has_bom THEN Append(utf32_s, Widen(byte_order_mark))
                                      ELSE utf32_s)

(***************************************************************************)
(* utf16_to_utf32: the for loop, with `index` the iterator's offset.       *)
(***************************************************************************)
RECURSIVE utf16_to_utf32_loop(_, _, _, _, _, _)
utf16_to_utf32_loop(utf16_sv, index, was_double_character, reverse, utf32_s, comply_with_standard) ==
    IF index >= Len(utf16_sv) THEN Finished(utf32_s)
    ELSE IF was_double_character
    THEN utf16_to_utf32_loop(utf16_sv, index + 1, FALSE, reverse, utf32_s,
                             comply_with_standard)
    ELSE
    LET this_character ==
            IF reverse THEN utf16_reverse_endianness(utf16_sv[index + 1])
                       ELSE utf16_sv[index + 1]
        exists_next_character == index + 1 < Len(utf16_sv)
        \* read only where exists_next_character holds
        next_character ==
            IF reverse THEN utf16_reverse_endianness(utf16_sv[index + 2])
                       ELSE utf16_sv[index + 2]
    IN
    IF is_high_surrogate(this_character)
    THEN
        IF ~exists_next_character
        THEN IF comply_with_standard
             THEN Result(non_standard_encoding, <<>>)
             ELSE utf16_to_utf32_loop(utf16_sv, index + 1, FALSE, reverse,
                                      Append(utf32_s, Widen(this_character)),
                                      comply_with_standard)
        ELSE IF ~is_low_surrogate(next_character)
        THEN IF comply_with_standard
             THEN Result(non_standard_encoding, <<>>)
             ELSE utf16_to_utf32_loop(utf16_sv, index + 1, FALSE, reverse,
                                      Append(utf32_s, Widen(this_character)),
                                      comply_with_standard)
        ELSE
        LET high_code_point == Shl(this_character - high_surrogate_start, 10)
            low_code_point  == ToU16(next_character - low_surrogate_start)
            code_point      == Widen(high_code_point + low_code_point
                                     + supplementary_plane_offset)
        IN  utf16_to_utf32_loop(utf16_sv, index + 1, TRUE, reverse,
                                Append(utf32_s, code_point), comply_with_standard)
    ELSE utf16_to_utf32_loop(utf16_sv, index + 1, FALSE, reverse,
                             Append(utf32_s, Widen(this_character)),
                             comply_with_standard)

\* What sv[0] yields: the first code unit, or, on an empty buffer, the
\* indeterminate value `junk` of a read past the end.
FirstUnit(sv, junk) == IF Len(sv) > 0 THEN sv[1] ELSE junk

utf16_to_utf32(utf16_sv, utf32_s, comply_with_standard, junk) ==
    LET reverse == utf16_bom(FirstUnit(utf16_sv, junk)) = "little_endian"
    IN  utf16_to_utf32_loop(utf16_sv, 0, FALSE, reverse, utf32_s,
                            comply_with_standard)

(***************************************************************************)
(* utf32_to_utf8: the range-for loop, with `index` the position reached.   *)
(***************************************************************************)
RECURSIVE utf32_to_utf8_loop(_, _, _, _, _)
utf32_to_utf8_loop(utf32_sv, index, reverse, utf8_s, comply_with_standard) ==
    IF index >= Len(utf32_sv) THEN Finished(utf8_s)
    ELSE
    LET code_unit ==
            IF reverse THEN utf32_reverse_endianness(utf32_sv[index + 1])
                       ELSE utf32_sv[index + 1]
    IN
    IF Above(code_unit, four_byte_boundary)
    THEN Result(undefined_error, <<>>)
    ELSE
    \* from here on the code point is at most 0x10FFFF, a plain number
    LET this_code_point == Value(code_unit) IN
    IF this_code_point <= one_byte_boundary
    THEN utf32_to_utf8_loop(utf32_sv, index + 1, reverse,
                            Append(utf8_s, ToU8(this_code_point)),
                            comply_with_standard)
    ELSE IF this_code_point <= two_byte_boundary
    THEN
        LET cp_16        == ToU16(this_code_point)
            first_5_bits == ToU8(Shr(cp_16, 6))
            last_6_bits  == ToU8(LowBits(cp_16, 6))
        IN  utf32_to_utf8_loop(utf32_sv, index + 1, reverse,
                utf8_s \o << ToU8(Shl(double_byte_marker, 5) + first_5_bits),
                             ToU8(Shl(trailing_byte_marker, 6) + last_6_bits) >>,
                comply_with_standard)
    ELSE IF this_code_point <= three_byte_boundary
    THEN
        LET cp_16 == ToU16(this_code_point)
            \* && binds tighter than ||
            wrong_encoding ==
                \/ (comply_with_standard /\ cp_16 < low_surrogate_start)
                \/ cp_16 > high_surrogate_start
        IN
        IF wrong_encoding THEN Result(non_standard_encoding, <<>>)
        ELSE
        LET first_4_bits  == ToU8(Shr(cp_16, 12))
            middle_6_bits == ToU8(LowBits(Shr(cp_16, 6), 6))
            last_6_bits   == ToU8(LowBits(cp_16, 6))
        IN  utf32_to_utf8_loop(utf32_sv, index + 1, reverse,
                utf8_s \o << ToU8(Shl(triple_byte_marker, 4) + first_4_bits),
                             ToU8(Shl(trailing_byte_marker, 6) + middle_6_bits),
                             ToU8(Shl(trailing_byte_marker, 6) + last_6_bits) >>,
                comply_with_standard)
    ELSE
        \* this_code_point <= four_byte_boundary, always true here
        LET first_3_bits  == ToU8(Shr(this_code_point, 18))
            second_6_bits == ToU8(LowBits(Shr(this_code_point, 12), 6))
            third_6_bits  == ToU8(LowBits(Shr(this_code_point, 6), 6))
            last_6_bits   == ToU8(LowBits(this_code_point, 6))
        IN  utf32_to_utf8_loop(utf32_sv, index + 1, reverse,
                utf8_s \o << ToU8(Shl(quadruple_byte_marker, 5) + first_3_bits),
                             ToU8(Shl(trailing_byte_marker, 6) + second_6_bits),
                             ToU8(Shl(trailing_byte_marker, 6) + third_6_bits),
                             ToU8(Shl(trailing_byte_marker, 6) + last_6_bits) >>,
                comply_with_standard)

utf32_to_utf8(utf32_sv, utf8_s, comply_with_standard, junk) ==
    LET reverse == utf32_bom(FirstUnit(utf32_sv, junk)) = "little_endian"
    IN  utf32_to_utf8_loop(utf32_sv, 0, reverse, utf8_s, comply_with_standard)

(***************************************************************************)
(* utf32_to_utf16: the range-for loop.                                     *)
(***************************************************************************)
RECURSIVE utf32_to_utf16_loop(_, _, _, _, _)
utf32_to_utf16_loop(utf32_sv, index, reverse, utf16_s, comply_with_standard) ==
    IF index >= Len(utf32_sv) THEN Finished(utf16_s)
    ELSE
    LET code_unit ==
            IF reverse THEN utf32_reverse_endianness(utf32_sv[index + 1])
                       ELSE utf32_sv[index + 1]
    IN
    IF AtLeast(code_unit, supplementary_plane_end)
    THEN Result(undefined_error, <<>>)
    ELSE
    \* from here on the code point is below 0x110000, a plain number
    LET this_code_point == Value(code_unit) IN
    IF ~is_correct_code_point(this_code_point) /\ comply_with_standard
    THEN Result(non_standard_encoding, <<>>)
    ELSE IF this_code_point >= supplementary_plane_offset
    THEN
        LET surrogate_data      == this_code_point - supplementary_plane_offset
            high_surrogate_data == ToI16(Shr(surrogate_data, 10))
            low_surrogate_data  == ToI16(LowBits(surrogate_data, 10))
            high_surrogate      == ToU16(high_surrogate_start + high_surrogate_data)
            low_surrogate       == ToU16(low_surrogate_start + low_surrogate_data)
        IN  utf32_to_utf16_loop(utf32_sv, index + 1, reverse,
                                utf16_s \o << high_surrogate, low_surrogate >>,
                                comply_with_standard)
    ELSE utf32_to_utf16_loop(utf32_sv, index + 1, reverse,
                             Append(utf16_s, ToU16(this_code_point)),
                             comply_with_standard)

utf32_to_utf16(utf32_sv, utf16_s, comply_with_standard, junk) ==
    LET reverse == utf32_bom(FirstUnit(utf32_sv, junk)) = "little_endian"
    IN  utf32_to_utf16_loop(utf32_sv, 0, reverse, utf16_s, comply_with_standard)

(***************************************************************************)
(* The chained conversions.  Both legs write into fresh local buffers; the *)
(* caller's buffer is assigned only on success and is not touched on the   *)
(* two early returns.                                                      *)
(***************************************************************************)
\* utf8_to_utf16 taking only the negative statuses for failures
utf8_to_utf16_negative_is_failure(utf8_sv, utf16_s, comply_with_standard, junk) ==
    LET decoded == utf8_to_utf32(utf8_sv, <<>>, comply_with_standard)
        first   == Leg("utf8_to_utf32", decoded)
    IN
    IF decoded.status < undefined_error
    THEN Chained(decoded.status, utf16_s, <<first>>)
    ELSE
    LET encoded == utf32_to_utf16(decoded.out, <<>>, comply_with_standard, junk)
        second  == Leg("utf32_to_utf16", encoded)
    IN
    IF encoded.status < undefined_error
    THEN Chained(encoded.status, utf16_s, <<first, second>>)
    ELSE Chained(success, encoded.out, <<first, second>>)

utf8_to_utf16(utf8_sv, utf16_s, comply_with_standard, junk) ==
    LET decoded == utf8_to_utf32(utf8_sv, <<>>, comply_with_standard)
        first   == Leg("utf8_to_utf32", decoded)
    IN
    IF decoded.status < success
    THEN Chained(decoded.status, utf16_s, <<first>>)
    ELSE
    LET encoded == utf32_to_utf16(decoded.out, <<>>, comply_with_standard, junk)
        second  == Leg("utf32_to_utf16", encoded)
    IN
    IF encoded.status < success
    THEN Chained(encoded.status, utf16_s, <<first, second>>)
    ELSE Chained(success, encoded.out, <<first, second>>)

\* utf16_to_utf8 without the return after a failed first leg
utf16_to_utf8_unchecked_decode(utf16_sv, utf8_s, comply_with_standard, junk16, junk32) ==
    LET decoded == utf16_to_utf32(utf16_sv, <<>>, comply_with_standard, junk16)
        first   == Leg("utf16_to_utf32", decoded)
        encoded == utf32_to_utf8(decoded.out, <<>>, comply_with_standard, junk32)
        second  == Leg("utf32_to_utf8", encoded)
    IN
    IF encoded.status < success
    THEN Chained(encoded.status, utf8_s, <<first, second>>)
    ELSE Chained(success, encoded.out, <<first, second>>)

utf16_to_utf8(utf16_sv, utf8_s, comply_with_standard, junk16, junk32) ==
    LET decoded == utf16_to_utf32(utf16_sv, <<>>, comply_with_standard, junk16)
        first   == Leg("utf16_to_utf32", decoded)
    IN
    IF decoded.status < success
    THEN Chained(decoded.status, utf8_s, <<first>>)
    ELSE
    LET encoded == utf32_to_utf8(decoded.out, <<>>, comply_with_standard, junk32)
        second  == Leg("utf32_to_utf8", encoded)
    IN
    IF encoded.status < success
    THEN Chained(encoded.status, utf8_s, <<first, second>>)
    ELSE Chained(success, encoded.out, <<first, second>>)

(***************************************************************************)
(* Bounds of the model and the inputs the caller draws from.               *)
(***************************************************************************)
MaxLen8 == 3

MaxLen16 == 2

MaxLen32 == 2

MaxCalls == 2

SeqsUpTo(S, n) == UNION {[1..k -> S] : k \in 0..n}

\* 0x41, 0x82, 0xA9, 0xC3, 0xE2, 0xF0, 0xF8: one byte of every class the
\* decoder tells apart, and two continuation bytes
Bytes == {65, 130, 169, 195, 226, 240, 248}

\* the byte strings of the documented examples: E2 82 AC, F0 90 8D 88, the
\* byte-order mark EF BB BF alone, cut short, and before 0x41
Utf8Examples ==
    { <<226, 130, 172>>, <<240, 144, 141, 136>>, <<239, 187, 191>>,
      <<239, 187>>, <<239, 187, 191, 65>> }

Utf8Inputs == SeqsUpTo(Bytes, MaxLen8) \cup Utf8Examples

\* 0x0041, 0x00E9, 0xD800, 0xDF48, 0xE900, 0xFEFF, 0xFFFE
Units16 == {65, 233, 55296, 57160, 59648, 65279, 65534}

Utf16Inputs == SeqsUpTo(Units16, MaxLen16)

\* 0x41, 0xE9, 0x20AC, 0xD800, 0xDFFF, 0xE000, 0xFEFF, 0xFFFE, 0x10348,
\* 0x10FFFF, 0x110000
CodePoints ==
    { Widen(n) : n \in {65, 233, 8364, 55296, 57343, 57344, 65279, 65534,
                        66376, 1114111, 1114112} }

\* a buffer in the reversed byte order: 0xFFFE0000, 0x41000000
Utf32Examples == { << <<65534, 0>> >>, << <<65534, 0>>, <<16640, 0>> >> }

Utf32Inputs == SeqsUpTo(CodePoints, MaxLen32) \cup Utf32Examples

Inputs(k) ==
    CASE k = "utf8"  -> Utf8Inputs
      [] k = "utf16" -> Utf16Inputs
      [] k = "utf32" -> Utf32Inputs

\* what the caller's output buffer may hold when a call starts: nothing, or
\* the unit 0x58 left there earlier
InitialOutputs(k) ==
    IF k = "utf32" THEN { <<>>, << Widen(88) >> } ELSE { <<>>, <<88>> }

\* the values a read of element 0 of an empty buffer may yield, as a
\* char16_t (0, 0xFFFE) and as a char32_t (0, 0xFFFE0000)
IndeterminateUnits(k) ==
    IF k = "utf32" THEN { <<0, 0>>, <<65534, 0>> } ELSE {0, 65534}

\* the encoding of the buffer each entry point reads and writes
InputKind(f) ==
    CASE f \in {"utf8_to_utf16", "utf8_to_utf32"} -> "utf8"
      [] f \in {"utf16_to_utf8", "utf16_to_utf32"} -> "utf16"
      [] f \in {"utf32_to_utf8", "utf32_to_utf16"} -> "utf32"

OutputKind(f) ==
    CASE f \in {"utf16_to_utf8", "utf32_to_utf8"} -> "utf8"
      [] f \in {"utf8_to_utf16", "utf32_to_utf16"} -> "utf16"
      [] f \in {"utf8_to_utf32", "utf16_to_utf32"} -> "utf32"

EntryPoints ==
    {"utf8_to_utf16", "utf8_to_utf32", "utf16_to_utf8", "utf16_to_utf32",
     "utf32_to_utf8", "utf32_to_utf16"}

(***************************************************************************)
(* The state: a caller that calls entry point fn on the input buffer src   *)
(* with the flag strict (comply_with_standard) and the output buffer dst.  *)
(*   pc     "ready" before the call, "done" when it has returned           *)
(*   dst0   what dst held when the call started                            *)
(*   status what the call returned                                         *)
(*   oob    whether the call read element 0 of an empty buffer             *)
(*   finished whether the call returned from the statement after its loops *)
(*   legs   the conversions a chained call ran, in order, with statuses    *)
(*   prev   the call before this one: entry point, arguments and results   *)
(*   calls  the number of calls made                                       *)
(***************************************************************************)
VARIABLES pc, fn, src, strict, dst, dst0, status, oob, finished, legs, prev,
          calls

vars ==
    <<pc, fn, src, strict, dst, dst0, status, oob, finished, legs, prev, calls>>

NoCall ==
    [fn |-> "none", src |-> <<>>, strict |-> FALSE, dst0 |-> <<>>,
     status |-> undefined_error, dst |-> <<>>]

ThisCall ==
    [fn |-> fn, src |-> src, strict |-> strict, dst0 |-> dst0,
     status |-> status, dst |-> dst]

\* status holds a value-initialised status_e until the first call returns
Init ==
    /\ pc = "ready"
    /\ fn \in EntryPoints
    /\ src \in Inputs(InputKind(fn))
    /\ strict \in BOOLEAN
    /\ dst \in InitialOutputs(OutputKind(fn))
    /\ dst0 = dst
    /\ status = undefined_error
    /\ oob = FALSE
    /\ finished = FALSE
    /\ legs = <<>>
    /\ prev = NoCall
    /\ calls = 0

\* what every call does to the caller's state besides the conversion itself
Returned(r, read_past_end) ==
    /\ pc' = "done"
    /\ dst' = r.out
    /\ status' = r.status
    /\ oob' = read_past_end
    /\ finished' = r.finished
    /\ legs' = r.legs
    /\ calls' = calls + 1
    /\ UNCHANGED <<fn, src, strict, dst0, prev>>

Call_utf8_to_utf32 ==
    /\ pc = "ready" /\ fn = "utf8_to_utf32"
    /\ Returned(utf8_to_utf32(src, dst, strict), FALSE)

Call_utf16_to_utf32 ==
    /\ pc = "ready" /\ fn = "utf16_to_utf32"
    /\ \E junk \in IndeterminateUnits("utf16") :
          Returned(utf16_to_utf32(src, dst, strict, junk), src = <<>>)

Call_utf32_to_utf8 ==
    /\ pc = "ready" /\ fn = "utf32_to_utf8"
    /\ \E junk \in IndeterminateUnits("utf32") :
          Returned(utf32_to_utf8(src, dst, strict, junk), src = <<>>)

Call_utf32_to_utf16 ==
    /\ pc = "ready" /\ fn = "utf32_to_utf16"
    /\ \E junk \in IndeterminateUnits("utf32") :
          Returned(utf32_to_utf16(src, dst, strict, junk), src = <<>>)

\* the second leg reads element 0 of code_points, which is empty when the
\* first leg succeeded without emitting anything
Call_utf8_to_utf16 ==
    /\ pc = "ready" /\ fn = "utf8_to_utf16"
    /\ \E junk \in IndeterminateUnits("utf32") :
          Returned(utf8_to_utf16(src, dst, strict, junk),
                   utf8_to_utf32(src, <<>>, strict) = Finished(<<>>))

\* both legs read element 0 of their input; each is empty exactly when src is
Call_utf16_to_utf8 ==
    /\ pc = "ready" /\ fn = "utf16_to_utf8"
    /\ \E junk16 \in IndeterminateUnits("utf16") :
       \E junk32 \in IndeterminateUnits("utf32") :
          Returned(utf16_to_utf8(src, dst, strict, junk16, junk32), src = <<>>)

\* The caller passes the buffer it got to a next conversion, with a fresh
\* empty output buffer and the same flag.
Feed ==
    /\ pc = "done" /\ calls < MaxCalls
    /\ pc' = "ready"
    /\ \E f \in EntryPoints : InputKind(f) = OutputKind(fn) /\ fn' = f
    /\ src' = dst
    /\ dst' = <<>>
    /\ dst0' = <<>>
    /\ prev' = ThisCall
    /\ UNCHANGED <<strict, status, oob, finished, legs, calls>>

\* The caller makes the same call on the same input and flag again, into an
\* output buffer that holds something else than the first time.
Repeat ==
    /\ pc = "done" /\ calls < MaxCalls
    /\ pc' = "ready"
    /\ \E buf \in InitialOutputs(OutputKind(fn)) \ {dst0} :
          dst' = buf /\ dst0' = buf
    /\ prev' = ThisCall
    /\ UNCHANGED <<fn, src, strict, status, oob, finished, legs, calls>>

Next ==
    \/ Call_utf8_to_utf16
    \/ Call_utf8_to_utf32
    \/ Call_utf16_to_utf8
    \/ Call_utf16_to_utf32
    \/ Call_utf32_to_utf8
    \/ Call_utf32_to_utf16
    \/ Feed
    \/ Repeat

Spec == Init /\ [][Next]_vars

TypeOK ==
    /\ pc \in {"ready", "done"}
    /\ strict \in BOOLEAN
    /\ status \in status_e
    /\ oob \in BOOLEAN
    /\ finished \in BOOLEAN
    /\ Len(legs) \in 0..2
    /\ calls \in 0..MaxCalls
    /\ fn \in EntryPoints

(***************************************************************************)
(* Properties.                                                             *)
(***************************************************************************)
Failed == pc = "done" /\ status < success

\* a non-empty code-point buffer with every element at most 0x10FFFF
InRange(S) ==
    /\ S # <<>>
    /\ \A i \in 1..Len(S) : ~Above(S[i], four_byte_boundary)

IsSurrogate(ch) ==
    /\ HighWord(ch) = 0
    /\ LowWord(ch) >= high_surrogate_start
    /\ LowWord(ch) <= low_surrogate_end

HasSurrogate(S) == \E i \in 1..Len(S) : IsSurrogate(S[i])

\* the inputs of the round-trip claims: non-empty, no element in
\* [0xD800, 0xDFFF], none above 0x10FFFF
Scalars(S) == InRange(S) /\ ~HasSurrogate(S)

\* this state ends the second call of a round trip: `encoder` was called
\* lenient on prev.src into an empty buffer, and `decoder` was then called
\* lenient on what the encoder left, into an empty buffer
RoundTrip(encoder, decoder) ==
    /\ pc = "done"
    /\ fn = decoder
    /\ prev.fn = encoder
    /\ ~strict /\ ~prev.strict
    /\ dst0 = <<>> /\ prev.dst0 = <<>>
    /\ src = prev.dst

\* C1: whenever one of the six entry points returns a status < Success, the
\* caller's output buffer is empty on return, whatever it held before.
C1_FailureLeavesOutputEmpty == Failed => dst = <<>>

\* C2: UTF-8 round trip, lenient: for every non-empty code-point sequence S
\* without surrogate values and without values above 0x10FFFF,
\* utf32_to_utf8(S) into an empty buffer returns Success, and utf8_to_utf32
\* of its bytes into an empty buffer returns Success with output S.
C2_Utf8RoundTrip ==
    (RoundTrip("utf32_to_utf8", "utf8_to_utf32") /\ Scalars(prev.src))
        => /\ prev.status = success
           /\ status = success
           /\ dst = prev.src

\* C3 as claimed: UTF-16 round trip, lenient: for every non-empty code-point
\* sequence S without surrogate values and without values above 0x10FFFF,
\* those beginning with 0xFFFE or 0xFEFF included, utf32_to_utf16(S) into an
\* empty buffer returns Success, and utf16_to_utf32 of its units into an
\* empty buffer returns Success with output S.
C3_Utf16RoundTrip_AsClaimed ==
    (RoundTrip("utf32_to_utf16", "utf16_to_utf32") /\ Scalars(prev.src))
        => /\ prev.status = success
           /\ status = success
           /\ dst = prev.src

\* C3 as amended: the same round trip holds for every such sequence S whose
\* first element is not 0xFFFE (a first element 0xFEFF included).
C3_Utf16RoundTrip ==
    (/\ RoundTrip("utf32_to_utf16", "utf16_to_utf32")
     /\ Scalars(prev.src)
     /\ prev.src[1] # Widen(reversed_byte_order_mark))
        => /\ prev.status = success
           /\ status = success
           /\ dst = prev.src

\* a round trip of 0xFEFF, 0x10348: a byte-order mark in front, and a
\* surrogate pair split and put together again
C3_Witness ==
    /\ RoundTrip("utf32_to_utf16", "utf16_to_utf32")
    /\ prev.src = << Widen(byte_order_mark), Widen(66376) >>
    /\ src = << byte_order_mark, 55296, 57160 >>
    /\ status = success
    /\ dst = prev.src

\* C4: two calls of the same entry point on equal input with equal flag, into
\* output buffers of different initial contents, return equal statuses and
\* leave equal output buffers.
C4_ResultIndependentOfOutputBuffer ==
    (/\ pc = "done"
     /\ prev.fn = fn
     /\ prev.src = src
     /\ prev.strict = strict
     /\ prev.dst0 # dst0)
        => /\ status = prev.status
           /\ dst = prev.dst

\* C5: with strict = false no entry point returns NonStandardEncoding.
C5_LenientNeverNonStandard ==
    (pc = "done" /\ ~strict) => status # non_standard_encoding

\* C6: with strict = true, on a non-empty input whose code points are all
\* at most 0x10FFFF, utf32_to_utf8 and utf32_to_utf16 return
\* NonStandardEncoding if and only if some code point lies in
\* [0xD800, 0xDFFF], and Success if none does.
C6_StrictRejectsExactlySurrogates ==
    (/\ pc = "done"
     /\ fn \in {"utf32_to_utf8", "utf32_to_utf16"}
     /\ strict
     /\ InRange(src))
        => /\ (status = non_standard_encoding) <=> HasSurrogate(src)
           /\ ~HasSurrogate(src) => status = success

\* C7: utf8_to_utf32 decodes a 2-byte sequence b0 b1, b0 of the form
\* 110xxxxx, to the one code point ((b0 & 0x1F) << 6) + (b1 & 0x3F), with
\* Success.
C7_TwoByteDecode ==
    (/\ pc = "done"
     /\ fn = "utf8_to_utf32"
     /\ dst0 = <<>>
     /\ Len(src) = 2
     /\ src[1] >= 192 /\ src[1] <= 223)
        => /\ status = success
           /\ dst = << Widen(Shl(src[1] % 32, 6) + (src[2] % 64)) >>

\* C8: utf8_to_utf32 decodes a 4-byte sequence b0 b1 b2 b3, b0 of the form
\* 11110xxx, to the one code point ((b0 & 0x07) << 18) + ((b1 & 0x3F) << 12)
\* + ((b2 & 0x3F) << 6) + (b3 & 0x3F), with Success.
C8_FourByteDecode ==
    (/\ pc = "done"
     /\ fn = "utf8_to_utf32"
     /\ dst0 = <<>>
     /\ Len(src) = 4
     /\ src[1] >= 240 /\ src[1] <= 247)
        => /\ status = success
           /\ dst = << Widen(Shl(src[1] % 8, 18) + Shl(src[2] % 64, 12)
                             + Shl(src[3] % 64, 6) + (src[4] % 64)) >>

\* C9: for a code point cp in 0x10000..0x10FFFF, utf32_to_utf8 with
\* strict = false on the input [cp] and an empty output buffer returns
\* Success and emits the four bytes 0xF0 + (cp >> 18),
\* 0x80 + ((cp >> 12) & 0x3F), 0x80 + ((cp >> 6) & 0x3F), 0x80 + (cp & 0x3F).
C9_FourByteEncode ==
    (/\ pc = "done"
     /\ fn = "utf32_to_utf8"
     /\ ~strict
     /\ dst0 = <<>>
     /\ Len(src) = 1
     /\ AtLeast(src[1], supplementary_plane_offset)
     /\ ~Above(src[1], four_byte_boundary))
        => /\ status = success
           /\ dst = << 240 + (Value(src[1]) \div 262144),
                       128 + ((Value(src[1]) \div 4096) % 64),
                       128 + ((Value(src[1]) \div 64) % 64),
                       128 + (Value(src[1]) % 64) >>

\* The first offending position of a byte string, scanned left to right
\* from position i: "trailing" when a byte 10xxxxxx stands where a leading
\* byte is expected, "cut_off" when the leading byte of a 2-, 3- or 4-byte
\* sequence has fewer than 1, 2 or 3 bytes after it, "none" when the scan
\* reaches the end.  The scan steps over a sequence by the length its
\* leading byte announces, and by one over any other byte.
RECURSIVE FirstOffence(_, _)
FirstOffence(bytes, i) ==
    IF i > Len(bytes) THEN "none"
    ELSE
    LET b == bytes[i]
        following == Len(bytes) - i
        announced == IF b >= 192 /\ b <= 223 THEN 1
                     ELSE IF b >= 224 /\ b <= 239 THEN 2
                     ELSE IF b >= 240 /\ b <= 247 THEN 3
                     ELSE 0
    IN  IF b >= 128 /\ b <= 191 THEN "trailing"
        ELSE IF following < announced THEN "cut_off"
        ELSE FirstOffence(bytes, i + 1 + announced)

\* C10: utf8_to_utf32 returns TrailingWithoutLeading exactly when the first
\* offending position is a byte 10xxxxxx where a leading byte is expected,
\* CharacterCutOff exactly when it is a leading byte with too few bytes after
\* it, in both cases with the output empty, and no other failure status.
C10_Utf8ErrorClassification ==
    (pc = "done" /\ fn = "utf8_to_utf32")
        => /\ (status = trailing_without_leading)
                <=> FirstOffence(src, 1) = "trailing"
           /\ (status = character_cut_off)
                <=> FirstOffence(src, 1) = "cut_off"
           /\ status \in {success, trailing_without_leading, character_cut_off}
           /\ status < success => dst = <<>>

\* 0x41 E2 82 into a buffer that held 0x58: the 3-byte sequence is cut off
\* after the ASCII byte was decoded, and the call leaves the buffer empty
C10_Witness ==
    /\ pc = "done"
    /\ fn = "utf8_to_utf32"
    /\ src = <<65, 226, 130>>
    /\ dst0 = << Widen(88) >>
    /\ status = character_cut_off
    /\ dst = <<>>

\* the value of a code point is 0x110000 or more
BeyondUnicode(ch) == HighWord(ch) >= 17

\* the position of the first element of S that is 0x110000 or more, 0 if none
FirstBeyondUnicode(S) ==
    IF \E i \in 1..Len(S) : BeyondUnicode(S[i])
    THEN CHOOSE i \in 1..Len(S) :
            /\ BeyondUnicode(S[i])
            /\ \A j \in 1..(i - 1) : ~BeyondUnicode(S[j])
    ELSE 0

\* the elements before position i are encoded without failure by `encoder`
EncodesBefore(encoder, S, i, flag) ==
    \/ i = 1
    \/ /\ i > 1
       /\ encoder = "utf32_to_utf8"
       /\ utf32_to_utf8(SubSeq(S, 1, i - 1), <<>>, flag, S[1]).status = success
    \/ /\ i > 1
       /\ encoder = "utf32_to_utf16"
       /\ utf32_to_utf16(SubSeq(S, 1, i - 1), <<>>, flag, S[1]).status = success

\* C11: utf32_to_utf8 and utf32_to_utf16, with either flag: when the input
\* holds a code point of 0x110000 or more and every code point before it is
\* encoded without failure, the call returns UndefinedError and the output
\* buffer is empty on return.
C11_BeyondUnicodeIsUndefinedError ==
    (/\ pc = "done"
     /\ fn \in {"utf32_to_utf8", "utf32_to_utf16"}
     /\ FirstBeyondUnicode(src) > 0
     /\ EncodesBefore(fn, src, FirstBeyondUnicode(src), strict))
        => status = undefined_error /\ dst = <<>>

\* [0x41, 0x110000] to UTF-16, lenient, into a buffer that held 0x58: the
\* first code point is encoded, the second is rejected, the buffer is empty
C11_Witness ==
    /\ pc = "done"
    /\ fn = "utf32_to_utf16"
    /\ ~strict
    /\ src = << Widen(65), Widen(1114112) >>
    /\ dst0 = <<88>>
    /\ status = undefined_error
    /\ dst = <<>>

\* C12: the statuses are ordered TrailingWithoutLeading = -3 <
\* CharacterCutOff = -2 < NonStandardEncoding = -1 < UndefinedError = 0 <
\* Success = 1; every call of every entry point returns one of the five, the
\* status is below Success exactly when the conversion did not run to its
\* end, and Success is the only returned status that is not below Success.
C12_BelowSuccessIffNotCompleted ==
    /\ trailing_without_leading = -3
    /\ character_cut_off = -2
    /\ non_standard_encoding = -1
    /\ undefined_error = 0
    /\ success = 1
    /\ pc = "done" =>
          /\ status \in status_e
          /\ status < success <=> ~finished
          /\ ~(status < success) => status = success

\* F0 90 8D 88 to UTF-16: the decode leg succeeds, the encode leg returns
\* UndefinedError, the status next below Success, and the call returns it
C12_Witness ==
    /\ pc = "done"
    /\ fn = "utf8_to_utf16"
    /\ src = <<240, 144, 141, 136>>
    /\ status = undefined_error
    /\ ~finished

\* the two legs of a chained entry point
DecodeLeg(f) == IF f = "utf8_to_utf16" THEN "utf8_to_utf32" ELSE "utf16_to_utf32"

EncodeLeg(f) == IF f = "utf8_to_utf16" THEN "utf32_to_utf16" ELSE "utf32_to_utf8"

\* the results the decode leg of f can give on S into an empty buffer
DecodeResults(f, S, flag) ==
    IF f = "utf8_to_utf16"
    THEN {utf8_to_utf32(S, <<>>, flag)}
    ELSE {utf16_to_utf32(S, <<>>, flag, junk) :
              junk \in IndeterminateUnits("utf16")}

\* the results the encode leg of f can give on S into an empty buffer
EncodeResults(f, S, flag) ==
    IF f = "utf8_to_utf16"
    THEN {utf32_to_utf16(S, <<>>, flag, junk) :
              junk \in IndeterminateUnits("utf32")}
    ELSE {utf32_to_utf8(S, <<>>, flag, junk) :
              junk \in IndeterminateUnits("utf32")}

\* C13: in utf8_to_utf16 and utf16_to_utf8 the decode leg runs first and the
\* encode leg runs only after the decode leg returned Success.  When the
\* decode leg fails, the encode leg is not started and the call returns the
\* decode status; when the decode leg succeeds and the encode leg fails, the
\* call returns the encode status; the call returns Success only when both
\* legs did, and the output then is what the encode leg made of the decoded
\* code points.
C13_EncodeOnlyAfterDecodeSucceeded ==
    (pc = "done" /\ fn \in {"utf8_to_utf16", "utf16_to_utf8"})
        => /\ Len(legs) \in {1, 2}
           /\ legs[1].leg = DecodeLeg(fn)
           /\ \E d \in DecodeResults(fn, src, strict) :
                 /\ legs[1].status = d.status
                 /\ status = success =>
                       \E e \in EncodeResults(fn, d.out, strict) :
                           e.status = success /\ dst = e.out
           /\ Len(legs) = 2 <=> legs[1].status = success
           /\ Len(legs) = 2 => legs[2].leg = EncodeLeg(fn)
           /\ legs[1].status < success => status = legs[1].status
           /\ Len(legs) = 2 /\ legs[2].status < success
                 => status = legs[2].status
           /\ status = success
                 <=> Len(legs) = 2 /\ \A i \in 1..2 : legs[i].status = success

\* [0xFEFF] to UTF-8, lenient, into a buffer that held 0x58: the decode leg
\* succeeds, the encode leg returns NonStandardEncoding, the call returns it
C13_Witness ==
    /\ pc = "done"
    /\ fn = "utf16_to_utf8"
    /\ ~strict
    /\ src = <<65279>>
    /\ dst0 = <<88>>
    /\ Len(legs) = 2
    /\ legs[1].status = success
    /\ legs[2].status = non_standard_encoding
    /\ status = non_standard_encoding

\* the four bytes of a code point in the opposite order
BytesReversed32(ch) ==
    << (LowWord(ch) % 256) * 256 + (LowWord(ch) \div 256),
       (HighWord(ch) % 256) * 256 + (HighWord(ch) \div 256) >>

\* C14: utf32_to_utf8 and utf32_to_utf16 take an input whose first element
\* is 0xFFFE0000 for little-endian and reverse the bytes of every element
\* before the range checks: the call gives what the encoder gives on the
\* byte-reversed elements, so utf32_to_utf16([0xFFFE0000, 0x41000000]),
\* lenient, returns Success with [0xFEFF, 0x0041].
C14_Utf32LittleEndianReversed ==
    (/\ pc = "done"
     /\ fn \in {"utf32_to_utf8", "utf32_to_utf16"}
     /\ src # <<>>
     /\ src[1] = <<65534, 0>>
     /\ dst0 = <<>>)
        => LET reversed == [i \in 1..Len(src) |-> BytesReversed32(src[i])]
               expected == IF fn = "utf32_to_utf8"
                           THEN utf32_to_utf8_loop(reversed, 0, FALSE, <<>>,
                                                   strict)
                           ELSE utf32_to_utf16_loop(reversed, 0, FALSE, <<>>,
                                                    strict)
           IN  /\ status = expected.status
               /\ dst = expected.out
               /\ (/\ fn = "utf32_to_utf16"
                   /\ ~strict
                   /\ src = << <<65534, 0>>, <<16640, 0>> >>)
                     => status = success /\ dst = <<65279, 65>>

\* the two bytes of a code unit in the opposite order
BytesSwapped16(u) == (u % 256) * 256 + (u \div 256)

\* C15: utf16_to_utf32 on an input whose first unit is 0xFFFE replaces every
\* unit u by ((u & 0xFF) << 8) + (u >> 8) before decoding it, the first code
\* point it emits is 0xFEFF, and [0xFFFE, 0xE900], lenient, gives Success
\* with [0xFEFF, 0x00E9].
C15_Utf16ExactByteSwap ==
    (/\ pc = "done"
     /\ fn = "utf16_to_utf32"
     /\ src # <<>>
     /\ src[1] = 65534
     /\ dst0 = <<>>)
        => LET swapped  == [i \in 1..Len(src) |-> BytesSwapped16(src[i])]
               expected == utf16_to_utf32_loop(swapped, 0, FALSE, FALSE, <<>>,
                                               strict)
           IN  /\ status = expected.status
               /\ dst = expected.out
               /\ status = success => dst[1] = Widen(65279)
               /\ (~strict /\ src = <<65534, 59648>>)
                     => status = success /\ dst = << Widen(65279), Widen(233) >>

\* What a UTF-16 decoder that treats unpaired surrogates as C16 says gives
\* on units from position i on: a high surrogate followed by a low one
\* makes one code point and takes two units; a high surrogate without a low
\* one after it is rejected when flag is set, and otherwise stands for
\* itself and takes one unit; every other unit, a low surrogate included,
\* stands for itself.
RECURSIVE Unpaired16(_, _, _)
Unpaired16(units, i, flag) ==
    IF i > Len(units) THEN [ok |-> TRUE, out |-> <<>>]
    ELSE
    LET h      == units[i]
        high   == h >= 55296 /\ h <= 56319
        paired == /\ high
                  /\ i < Len(units)
                  /\ units[i + 1] >= 56320
                  /\ units[i + 1] <= 57343
        rest   == Unpaired16(units, IF paired THEN i + 2 ELSE i + 1, flag)
        cp     == IF paired
                  THEN Widen(65536 + (h - 55296) * 1024 + (units[i + 1] - 56320))
                  ELSE Widen(h)
    IN  IF high /\ ~paired /\ flag THEN [ok |-> FALSE, out |-> <<>>]
        ELSE IF ~rest.ok THEN rest
        ELSE [ok |-> TRUE, out |-> <<cp>> \o rest.out]

\* the call treated the unpaired surrogates of `units` as C16 says
UnpairedAsDocumented(units) ==
    LET ref == Unpaired16(units, 1, strict) IN
    /\ status \in {success, non_standard_encoding}
    /\ IF ~ref.ok
       THEN status = non_standard_encoding /\ dst = <<>>
       ELSE /\ status = success
            /\ Len(dst) = Len(dst0) + Len(ref.out)
            /\ \A k \in 1..Len(ref.out) :
                  IsSurrogate(ref.out[k]) => dst[Len(dst0) + k] = ref.out[k]

\* the units utf16_to_utf32 decodes: those of the input, byte-swapped by
\* the conversion when the first one is 0xFFFE
UnitsDecoded(S) ==
    IF S # <<>> /\ S[1] = reversed_byte_order_mark
    THEN [i \in 1..Len(S) |-> utf16_reverse_endianness(S[i])]
    ELSE S

C17_ReadsWithinBounds ==
    pc = "done" =>
        /\ ~oob
        /\ src = <<>> => /\ status = success
                         /\ dst0 = <<>> => dst = <<>>

====
